---- MODULE Spec2Model ----
(***************************************************************************)
(* Model of gps/PosSolver.cpp: the position-solving orchestrator           *)
(* PosSolverImpl.  One object, called sequentially: solve() once per       *)
(* epoch, the validity queries and elev_azim() in between.                 *)
(*                                                                         *)
(* The point solver (_spp) and the drift filter (_ekf) are external; the   *)
(* model keeps, for each, an abstract identifier of its current solution   *)
(* and lets every Solve/update call choose its return value and its new    *)
(* solution freely.  Exported values are kept symbolically, tagged with    *)
(* the object they were copied from, so that "taken from the filter" and   *)
(* "taken from the point solver" are different values.                     *)
(*                                                                         *)
(* C++ arrays of length two are functions on {0,1}; index 0 is the newest. *)
(* Altitudes are metres on the integer grid; 64-bit tick words are three   *)
(* limbs <<bits 63..48, bits 47..24, bits 23..0>>.  solve() is one atomic  *)
(* step (the object is used from one context only); what happened inside   *)
(* the call -- Solve's status, whether Reset ran, how update ended -- is    *)
(* kept in the history variables call, epochs and ok_since_reset.          *)
(***************************************************************************)
EXTENDS Integers, Sequences, FiniteSets, TLC

\* ------------------------------------------------------------------ bounds
\* number of distinct solutions the point solver can come up with
NumSol == 1
\* number of distinct states the filter update can leave the filter in
NumEkf == 1
\* largest number of satellite columns / weights in a batch
MaxSv == 1
\* number of distinct tick values offered where tick arithmetic is examined
NumTicks == 3

\* --------------------------------------------------- representation of data
L24 == 16777216
L16 == 65536

Pair(a, b) == (0 :> a) @@ (1 :> b)

\* altitudes: both edges of the plausibility gate and a value inside it
Altitudes == {-100, 0, 9000}

\* solve() never branches on adc_ticks; one tick value later than the
\* constructor's zero is offered here
TickZero == <<0, 0, 0>>
Ticks == { <<0, 0, 1>> }

\* 48-bit tick values at both ends of the range and on a limb boundary:
\* 1, 2^48-1, 3*2^24, 4, 2^48-4, ...
TickAt(k) ==
    IF k % 3 = 1 THEN <<0, 0, k>>
    ELSE IF k % 3 = 2 THEN <<0, L24 - 1, L24 + 1 - k>>
    ELSE <<0, k, 0>>
TickValues == { TickAt(k) : k \in 1..NumTicks }

\* no tick value / no oscillator correction (nothing was computed)
NoTicks == <<"none">>
NoOsc == <<"none">>

\* states a successful filter update can leave the filter in; the state a
\* failed update leaves behind is not read again before the next Reset
EkfStates == { <<"estimate", k>> : k \in 1..NumEkf }
EkfFresh == <<"fresh">>
EkfDiverged == <<"diverged">>
\* where tick arithmetic is examined the filter has one good state
TickEkfStates == { <<"estimate", 1>> }

\* observation batches: dim1 rows, dim2 satellite columns
Batches == [dim1 : {3, 4}, dim2 : 0..MaxSv]

\* where tick arithmetic is examined the point solver has one solution, of
\* plausible altitude (validity is then Solve's status)
TickSols == [sol : {1}, alt : {0}]

VARIABLES
    _pos, _t_rx, _osc_corr, _llh, _pos_valid,      \* exported state
    _state_spp, _ticks_spp, _ticks_ekf, _ct_rx,    \* depth-2 histories
    _ekf_running,                                  \* filter confidence
    _spp, _ekf,                                    \* the two solvers' own state
    aborted,                                       \* an assert() has fired
    call,                                          \* the operation just performed
    epochs,                                        \* the last three processed epochs
    ok_since_reset                                 \* an update succeeded since Reset, none failed

vars == <<_pos, _t_rx, _osc_corr, _llh, _pos_valid, _state_spp, _ticks_spp,
          _ticks_ekf, _ct_rx, _ekf_running, _spp, _ekf, aborted, call, epochs,
          ok_since_reset>>

exported == <<_pos, _llh, _t_rx, _osc_corr>>

\* ----------------------------------------------------------------- queries
pos_valid == _pos_valid
spp_valid == _state_spp[0]
ekf_valid == _ekf_running >= 1

\* -------------------------------------------- the collaborators' accessors
\* SinglePointPositionSolver: LLH(), ct_rx(), pos() read the current solution
\* (the altitude is part of LLH and a function of the position)
SppLLH(s)  == <<"spp.LLH", s.sol, s.alt>>
SppCtRx(s) == <<"spp.ct_rx", s.sol>>
SppPos(s)  == <<"spp.pos", s.sol, s.alt>>
\* _spp.ct_rx()/_spp.c()
SppTRx(s)  == <<"spp.ct_rx/c", s.sol>>
\* EKFPositionSolver: LLH() and its own position
EkfLLH(e)   == <<"ekf.LLH", e>>
EkfPos(e)   == <<"ekf.pos", e>>
\* _ekf.ct_rx()/_ekf.c() and _ekf.state(4)/_ekf.c()
EkfTRx(e)   == <<"ekf.ct_rx/c", e>>
EkfOscCorr(e) == <<"ekf.state4/c", e>>

\* ------------------------------------------------------- 64-bit arithmetic
Lt64(a, b) ==
    \/ a[1] < b[1]
    \/ a[1] = b[1] /\ a[2] < b[2]
    \/ a[1] = b[1] /\ a[2] = b[2] /\ a[3] < b[3]

Add64(a, b) ==
    LET s3 == a[3] + b[3]
        s2 == a[2] + b[2] + (s3 \div L24)
        s1 == a[1] + b[1] + (s2 \div L24)
    IN  <<s1 % L16, s2 % L24, s3 % L24>>

Sub64(a, b) ==
    LET d3 == a[3] - b[3]
        d2 == a[2] - b[2] - (IF d3 < 0 THEN 1 ELSE 0)
        d1 == a[1] - b[1] - (IF d2 < 0 THEN 1 ELSE 0)
    IN  <<d1 % L16, d2 % L24, d3 % L24>>

\* 1ULL<<48
Wrap48 == <<1, 0, 0>>

\* variant: no correction for the wrap of the 48-bit counter
dadc_ticks_plain(adc_ticks) == Sub64(adc_ticks[0], adc_ticks[1])

\* numerator of dadc_ticks_sec (the division by _fOsc is left symbolic)
dadc_ticks_sec(adc_ticks) ==
    Sub64(Add64(adc_ticks[0],
                IF Lt64(adc_ticks[0], adc_ticks[1]) THEN Wrap48 ELSE TickZero),
          adc_ticks[1])

\* ------------------------------------------------------- pieces of solve()
\* variant: the previous slot is not refreshed
ShiftStale(hist, v) == Pair(v, hist[1])

\* _x[1] = _x[0]; _x[0] = v
Shift(hist, v) == Pair(v, hist[0])

\* variant: the lower edge of the gate is admitted
GateClosedBelow(status, altitude) == status /\ altitude >= -100 /\ altitude < 9000

\* status && altitude > -100 && altitude < 9000
Gate(status, altitude) == status /\ altitude > -100 /\ altitude < 9000

\* variant: the fix is exported whether or not it is valid
AcceptAlways(valid, old, new) == new

\* if (_state_spp[0]) { field = new; }
AcceptFix(valid, old, new) == IF valid THEN new ELSE old

\* variant: the flag follows the current epoch
FollowValid(pv, valid) == valid

\* if (_state_spp[0]) _pos_valid = true;
StickyValid(pv, valid) == IF valid THEN TRUE ELSE pv

\* variant: the previous epoch is not consulted
CurrentValid(state) == state[0]

\* if (_state_spp[0] && _state_spp[1])
BothValid(state) == state[0] /\ state[1]

\* _spp.mod_gpsweek(_ct_rx[0] - _ct_rx[1]) / _spp.c() / dt_adc_sec
SppOscCorr(ct, dt) == <<"spp.osc", ct[0], ct[1], dt>>

\* variant: the correction is timed on the filter's tick history
OscDtEkf(ticks_spp, ticks_ekf) == dadc_ticks_sec(ticks_ekf)

\* dt_adc_sec = dadc_ticks_sec(_ticks_spp)
OscDt(ticks_spp, ticks_ekf) == dadc_ticks_sec(ticks_spp)

\* variant: the filter's previous tick is left alone
MarkSkipped(hist) == hist

\* _ticks_ekf[1] = _ticks_ekf[0]
Mark(hist) == Pair(hist[0], hist[0])

\* variant: the update is timed on the point solver's tick history
UpdateDtSpp(ticks_spp, ticks_ekf) == dadc_ticks_sec(ticks_spp)

\* dt_adc_sec = dadc_ticks_sec(_ticks_ekf)
UpdateDt(ticks_spp, ticks_ekf) == dadc_ticks_sec(ticks_ekf)

\* if (_ekf_running == -1)
NotRunning(c) == c = -1

\* variant: the update waits for the epoch after the bootstrap
UpdateGateLate(c) == c >= 1

\* if (_ekf_running >= 0)
UpdateGate(c) == c >= 0

\* variant: no cap
AdvanceUncapped(c) == c + 1

\* _ekf_running += (_ekf_running < 4)
Advance(c) == c + (IF c < 4 THEN 1 ELSE 0)

\* variants: a failed update leaves the filter bootstrapped / as it was
TearDownToZero(c) == 0
TearDownSkipped(c) == c

\* _ekf_running = -1
TearDown(c) == -1

\* variant: the filter's own position is exported
UpdatePosEkf(s, e) == EkfPos(e)

\* _pos.inject(_spp.pos()) in the update branch
UpdatePos(s, e) == SppPos(s)

\* variant: the filter's values are exported before the result is tested
FilterExportAlways(success, from_ekf, other) == from_ekf

\* if (_ekf.update(...)) { field = filter's value; }
FilterExport(success, from_ekf, other) == IF success THEN from_ekf ELSE other

\* what the record of operations keeps of a processed epoch: whether there
\* was one, the point-solution's validity, whether _ekf.Reset was called,
\* how _ekf.update ended ("none": not called), and the epoch's tick and
\* clock bias (of the two most recent epochs only)
NoEpoch == [real |-> FALSE, valid |-> FALSE, boot |-> FALSE, upd |-> "none",
            tick |-> TickZero, ct |-> <<"zero">>]

\* which precondition of solve() a batch with nweight weights violates:
\* "count" (line 37), "dim" (line 43), or "none"
Violates(sv, nweight) ==
    IF sv.dim2 # nweight THEN "count"
    ELSE IF sv.dim1 # 4 THEN "dim" ELSE "none"

\* variant: the column count is not compared with the weight count
OutcomeNoCountCheck(sv, nweight) ==
    IF sv.dim2 = 0 THEN "false"
    ELSE IF sv.dim1 # 4 THEN "abort" ELSE "process"

\* the head of solve(): assert, early return, assert
Outcome(sv, nweight) ==
    IF sv.dim2 # nweight THEN "abort"
    ELSE IF sv.dim2 = 0 THEN "false"
    ELSE IF sv.dim1 # 4 THEN "abort" ELSE "process"

\* variant: solve() hands on the point solver's status
SolveReturnStatus(status) == IF status THEN "true" ELSE "false"

\* return true;
SolveReturn(status) == "true"

\* variant: the point solver is preferred
ElevAzimSourceSpp(spp_ok, ekf_ok) ==
    IF ~spp_ok /\ ~ekf_ok THEN "none"
    ELSE IF spp_ok THEN "spp" ELSE "ekf"

\* which solver elev_azim() projects with
ElevAzimSource(spp_ok, ekf_ok) ==
    IF ~spp_ok /\ ~ekf_ok THEN "none"
    ELSE IF ekf_ok THEN "ekf" ELSE "spp"

\* length of the vector elev_azim() returns
ElevAzimLength(src, dim2) == IF src = "none" THEN 0 ELSE dim2

\* the record of the operation just performed: its name, how it ended, the
\* number of satellite columns it was given, and, for solve(), the violated
\* precondition and _spp.Solve's status, for elev_azim() the solver used and
\* the length of the result; for a processed epoch also its tick, the tick
\* difference handed to _ekf.update and the correction computed in line 75
Call(op, ret, len, pre, status, src, out) ==
    [op |-> op, ret |-> ret, len |-> len, pre |-> pre, status |-> status,
     src |-> src, out |-> out, tick |-> NoTicks, dt |-> NoTicks, osc |-> NoOsc]

\* ------------------------------------------------------------ construction
PosSolverImpl ==
    /\ _pos = <<"zero">>
    /\ _t_rx = <<"zero">>
    /\ _osc_corr = <<"minus_one">>
    /\ _llh = <<"default">>
    /\ _pos_valid = FALSE
    /\ _state_spp = Pair(FALSE, FALSE)
    /\ _ticks_spp = Pair(TickZero, TickZero)
    /\ _ticks_ekf = Pair(TickZero, TickZero)
    /\ _ct_rx = Pair(<<"zero">>, <<"zero">>)
    /\ _ekf_running = -1
    /\ _spp = [sol |-> 0, alt |-> 0]
    /\ _ekf = EkfFresh
    /\ aborted = FALSE
    /\ call = Call("new", "none", 0, "none", FALSE, "none", 0)
    /\ epochs = <<NoEpoch, NoEpoch, NoEpoch>>
    /\ ok_since_reset = FALSE

Init == PosSolverImpl

\* ------------------------------------------------------------------ solve()
\* an assert() fails: the process is aborted, nothing is written
solve_assert ==
    /\ ~aborted
    /\ \E sv \in Batches, nweight \in 0..MaxSv :
          /\ Outcome(sv, nweight) = "abort"
          /\ call' = Call("solve", "abort", sv.dim2, Violates(sv, nweight),
                          FALSE, "none", 0)
    /\ aborted' = TRUE
    /\ UNCHANGED <<_pos, _t_rx, _osc_corr, _llh, _pos_valid, _state_spp,
                   _ticks_spp, _ticks_ekf, _ct_rx, _ekf_running, _spp, _ekf,
                   epochs, ok_since_reset>>

\* variant: the tick history is saved before the batch is found empty
solve_empty_late ==
    /\ ~aborted
    /\ \E sv \in Batches, nweight \in 0..MaxSv, adc_ticks \in Ticks :
          /\ Outcome(sv, nweight) = "false"
          /\ call' = Call("solve", "false", sv.dim2, Violates(sv, nweight),
                          FALSE, "none", 0)
          /\ _ticks_spp' = Shift(_ticks_spp, adc_ticks)
          /\ _ticks_ekf' = Pair(adc_ticks, _ticks_ekf[1])
    /\ UNCHANGED <<_pos, _t_rx, _osc_corr, _llh, _pos_valid, _state_spp,
                   _ct_rx, _ekf_running, _spp, _ekf,
                   aborted, epochs, ok_since_reset>>

\* if (!nsv) return false;
solve_empty ==
    /\ ~aborted
    /\ \E sv \in Batches, nweight \in 0..MaxSv :
          /\ Outcome(sv, nweight) = "false"
          /\ call' = Call("solve", "false", sv.dim2, Violates(sv, nweight),
                          FALSE, "none", 0)
    /\ UNCHANGED <<_pos, _t_rx, _osc_corr, _llh, _pos_valid, _state_spp,
                   _ticks_spp, _ticks_ekf, _ct_rx, _ekf_running, _spp, _ekf,
                   aborted, epochs, ok_since_reset>>

\* a processed epoch.  status, s: what _spp.Solve returns and leaves behind;
\* r: the state _ekf.update leaves behind when it is called; it returns false
\* exactly when that state is EkfDiverged
SolveEpoch(TickSet, SolSet, EkfSet) ==
    /\ ~aborted
    /\ \E sv \in Batches, nweight \in 0..MaxSv, adc_ticks \in TickSet,
          status \in BOOLEAN, s \in SolSet :
        LET proceed   == Outcome(sv, nweight) = "process"
            ticks_spp == Shift(_ticks_spp, adc_ticks)
            state_spp == Shift(_state_spp, Gate(status, s.alt))
            ct_rx     == Shift(_ct_rx, SppCtRx(s))
            valid     == state_spp[0]
            both      == BothValid(state_spp)
            ticks_ekf0 == Pair(adc_ticks, _ticks_ekf[1])
            osc       == IF both
                         THEN SppOscCorr(ct_rx, OscDt(ticks_spp, ticks_ekf0))
                         ELSE NoOsc
            osc1      == IF both THEN osc ELSE _osc_corr
            boot      == both /\ NotRunning(_ekf_running)
            ticks_ekf == IF boot THEN Mark(ticks_ekf0) ELSE ticks_ekf0
            running   == IF boot THEN 0 ELSE _ekf_running
            invoked   == UpdateGate(running)
        IN
        \E r \in IF ~proceed THEN {}
                ELSE IF invoked THEN EkfSet \cup {EkfDiverged} ELSE {_ekf} :
        LET updated   == invoked /\ r # EkfDiverged
            e         == r
            success   == invoked /\ updated
            upd       == IF ~invoked THEN "none"
                         ELSE IF updated THEN "ok" ELSE "fail"
        IN  /\ _ticks_spp' = ticks_spp
            /\ _spp' = s
            /\ _state_spp' = state_spp
            /\ _ct_rx' = ct_rx
            /\ _pos_valid' = StickyValid(_pos_valid, valid)
            /\ _ekf' = IF invoked THEN e ELSE _ekf
            /\ _ticks_ekf' = IF success THEN Mark(ticks_ekf) ELSE ticks_ekf
            /\ _ekf_running' = IF success THEN Advance(running)
                               ELSE IF invoked THEN TearDown(running)
                               ELSE running
            /\ _llh' = FilterExport(success, EkfLLH(e),
                                     AcceptFix(valid, _llh, SppLLH(s)))
            /\ _t_rx' = FilterExport(success, EkfTRx(e),
                                      AcceptFix(valid, _t_rx, SppTRx(s)))
            /\ _osc_corr' = FilterExport(success, EkfOscCorr(e), osc1)
            /\ _pos' = FilterExport(success, UpdatePos(s, e),
                                     AcceptFix(valid, _pos, SppPos(s)))
            /\ call' = [Call("solve", SolveReturn(status), sv.dim2,
                             Violates(sv, nweight), status, "none", 0)
                          EXCEPT !.tick = adc_ticks,
                                 !.dt = IF invoked
                                        THEN UpdateDt(ticks_spp, ticks_ekf)
                                        ELSE NoTicks,
                                 !.osc = osc]
            /\ epochs' = <<[real |-> TRUE, valid |-> valid, boot |-> boot,
                            upd |-> upd, tick |-> adc_ticks, ct |-> SppCtRx(s)],
                           epochs[1],
                           [NoEpoch EXCEPT !.real = epochs[2].real,
                                           !.valid = epochs[2].valid]>>
            /\ ok_since_reset' = IF invoked THEN updated
                                 ELSE IF boot THEN FALSE ELSE ok_since_reset
            /\ UNCHANGED aborted

solve_epoch == SolveEpoch(Ticks, [sol : 1..NumSol, alt : Altitudes], EkfStates)

\* the same with several tick values and few solutions
solve_epoch_ticks == SolveEpoch(TickValues, TickSols, TickEkfStates)

\* ---------------------------------------------------------------- elev_azim
elev_azim ==
    /\ ~aborted
    /\ \E dim2 \in 0..MaxSv :
          LET src == ElevAzimSource(spp_valid, ekf_valid)
          IN  call' = Call("elev_azim", "vector", dim2, "none", FALSE, src,
                           ElevAzimLength(src, dim2))
    /\ UNCHANGED <<_pos, _t_rx, _osc_corr, _llh, _pos_valid, _state_spp,
                   _ticks_spp, _ticks_ekf, _ct_rx, _ekf_running, _spp, _ekf,
                   aborted, epochs, ok_since_reset>>

Next == solve_assert \/ solve_empty \/ solve_epoch \/ elev_azim

Spec == Init /\ [][Next]_vars

NextTicks == solve_assert \/ solve_empty \/ solve_epoch_ticks \/ elev_azim

SpecTicks == Init /\ [][NextTicks]_vars

\* the step just taken was a solve() call that processed an epoch
Processed == call.op = "solve" /\ call.ret = "true"

\* =================================================================== claims
Min(a, b) == IF a < b THEN a ELSE b

\* the same, for the step that leads to the primed state
ProcessedNext == call'.op = "solve" /\ call'.ret = "true"

\* C1: _ekf.Reset is called in a solve() only if the filter is NOT_RUNNING on
\* entry and the point-solutions of this and of the previous processed epoch
\* are both valid; a valid epoch between two invalid ones causes no bootstrap
\* (neither in itself nor in its successor).
C1_BootstrapOnlyOnValidPair ==
    /\ [][ (ProcessedNext /\ epochs'[1].boot)
             => (_ekf_running = -1 /\ epochs'[1].valid /\ epochs[1].valid) ]_vars
    /\ [] ( (epochs[2].valid /\ ~epochs[1].valid /\ ~epochs[3].valid)
             => (~epochs[2].boot /\ ~epochs[1].boot) )

C1_Witness ==
    /\ Processed
    /\ epochs[1].boot /\ epochs[1].valid /\ epochs[2].valid

\* C2: an update invoked at confidence c >= 0 leaves min(c+1, 4) on success
\* and -1 on failure; otherwise the counter only changes by the bootstrap
\* step -1 -> 0 (c is the confidence the update sees: 0 after a bootstrap
\* in the same call, the entry value otherwise).
C2_ConfidenceSteps ==
    [][ LET boot == ProcessedNext /\ epochs'[1].boot
            upd  == IF ProcessedNext THEN epochs'[1].upd ELSE "none"
            c    == IF boot THEN 0 ELSE _ekf_running
        IN  /\ boot => _ekf_running = -1
            /\ upd = "ok"   => (c >= 0 /\ _ekf_running' = Min(c + 1, 4))
            /\ upd = "fail" => (c >= 0 /\ _ekf_running' = -1)
            /\ upd = "none" => _ekf_running' = c ]_vars

C2_Witness ==
    /\ Processed
    /\ epochs[1].upd = "fail" /\ ~epochs[1].boot /\ epochs[2].upd = "ok"
    /\ _ekf_running = -1

\* C3: the confidence counter is always one of -1, 0, 1, 2, 3, 4.
C3_ConfidenceDomain == _ekf_running \in {-1, 0, 1, 2, 3, 4}

C3_Witness == _ekf_running = 4 /\ Processed /\ epochs[1].upd = "ok"

\* exactly two epochs have been processed since construction, both valid,
\* and the second has just returned
TwoValidFromFresh ==
    /\ Processed
    /\ ~epochs[3].real
    /\ epochs[2].real /\ epochs[2].valid
    /\ epochs[1].real /\ epochs[1].valid

\* C4 as stated: after the second of two valid epochs on a fresh instance the
\* confidence is 0 and ekf_valid() is false.
C4_Original == TwoValidFromFresh => (_ekf_running = 0 /\ ~ekf_valid)

\* C4 (amended): after the second of two valid epochs on a fresh instance
\* the filter has been bootstrapped and updated within that second call: the
\* confidence is 1 (ekf_valid() true) if that update succeeded and -1
\* (ekf_valid() false) if it failed, and never 0.
C4_BootstrapAndUpdate ==
    TwoValidFromFresh =>
        /\ epochs[1].boot /\ ~epochs[2].boot
        /\ epochs[1].upd \in {"ok", "fail"}
        /\ epochs[1].upd = "ok"   => (_ekf_running = 1 /\ ekf_valid)
        /\ epochs[1].upd = "fail" => (_ekf_running = -1 /\ ~ekf_valid)

C4_Witness == TwoValidFromFresh /\ epochs[1].upd = "ok" /\ _ekf_running = 1

\* C5: pos_valid() is false on a fresh instance, becomes true exactly in the
\* first processed epoch whose point-solution is valid, and never goes back.
C5_PosValidMonotone ==
    /\ ~pos_valid
    /\ [][ /\ pos_valid => pos_valid'
           /\ (ProcessedNext /\ epochs'[1].valid) => pos_valid'
           /\ (~pos_valid /\ pos_valid') => (ProcessedNext /\ epochs'[1].valid)
         ]_vars

C5_Witness ==
    /\ Processed /\ pos_valid
    /\ ~epochs[1].valid /\ epochs[1].upd = "fail" /\ epochs[2].valid

\* C6: ekf_valid() is true exactly when the confidence is >= 1, and then an
\* update has succeeded since the last _ekf.Reset with no failed update since;
\* ekf_valid() only ever becomes true in a call whose update succeeded.
C6_EkfValidMeansUpdated ==
    /\ [] ( /\ ekf_valid <=> _ekf_running >= 1
            /\ ekf_valid => ok_since_reset )
    /\ [][ (~ekf_valid /\ ekf_valid')
             => (ProcessedNext /\ epochs'[1].upd = "ok") ]_vars

C6_Witness ==
    /\ Processed /\ ekf_valid /\ ok_since_reset
    /\ epochs[1].boot /\ epochs[1].upd = "ok"

\* C7: after a processed epoch spp_valid() holds iff _spp.Solve returned true
\* and the altitude it left is strictly above -100 and strictly below 9000.
C7_AltitudeGate ==
    Processed =>
        (spp_valid <=> (call.status /\ -100 < _spp.alt /\ _spp.alt < 9000))

C7_Witness ==
    /\ Processed /\ call.status /\ _spp.alt = -100 /\ ~spp_valid

\* C8 as stated: the point-solution of the epoch in which the update failed
\* does not count, so the epoch right after the failure never bootstraps.
C8_Original == (Processed /\ epochs[2].upd = "fail") => ~epochs[1].boot

\* C8 (amended): while the filter is NOT_RUNNING (in particular after a
\* failed update) a processed epoch bootstraps it if and only if its own
\* point-solution and that of the immediately preceding processed epoch are
\* both valid; the epoch of the failure counts, so a valid failure epoch
\* followed by a valid epoch bootstraps in the latter.
C8_RebootstrapOnLastTwoValid ==
    /\ [][ (ProcessedNext /\ _ekf_running = -1)
             => (epochs'[1].boot <=> (epochs'[1].valid /\ epochs[1].valid)) ]_vars
    /\ [] ( (Processed /\ epochs[2].upd = "fail"
                /\ epochs[2].valid /\ epochs[1].valid) => epochs[1].boot )

C8_Witness ==
    /\ Processed
    /\ epochs[2].upd = "fail" /\ epochs[2].valid
    /\ epochs[1].valid /\ epochs[1].boot

\* C9: after a processed epoch whose update succeeded, llh, t_rx and osc_corr
\* are the filter's and pos is the point solver's position of this call, also
\* when this call's point-solution is invalid.
C9_ExportAfterUpdate ==
    (Processed /\ epochs[1].upd = "ok") =>
        /\ _llh = EkfLLH(_ekf)
        /\ _t_rx = EkfTRx(_ekf)
        /\ _osc_corr = EkfOscCorr(_ekf)
        /\ _pos = SppPos(_spp)

C9_Witness ==
    /\ Processed /\ epochs[1].upd = "ok" /\ ~epochs[1].valid
    /\ _pos = SppPos(_spp) /\ _llh = EkfLLH(_ekf)

\* C10 as stated: an epoch with an invalid point-solution leaves pos, llh,
\* t_rx, osc_corr and pos_valid() as they were on entry.
C10_Original ==
    [][ (ProcessedNext /\ ~epochs'[1].valid)
          => UNCHANGED <<exported, _pos_valid>> ]_vars

\* C10 (amended): an epoch with an invalid point-solution leaves pos_valid()
\* as it was, and leaves pos, llh, t_rx and osc_corr as they were unless the
\* filter update succeeds in that call.
C10_InvalidEpochFrame ==
    [][ (ProcessedNext /\ ~epochs'[1].valid)
          => /\ _pos_valid' = _pos_valid
             /\ epochs'[1].upd # "ok" => UNCHANGED exported ]_vars

C10_Witness ==
    /\ Processed /\ ~epochs[1].valid /\ epochs[1].upd = "fail"
    /\ pos_valid /\ _llh # <<"default">>

\* everything the object and its two solvers hold
object == <<_pos, _t_rx, _osc_corr, _llh, _pos_valid, _state_spp, _ticks_spp,
            _ticks_ekf, _ct_rx, _ekf_running, _spp, _ekf>>

\* C11 as stated: a call whose update fails returns with confidence -1,
\* ekf_valid() false and pos, llh, t_rx, osc_corr as they were on entry.
C11_Original ==
    [][ (ProcessedNext /\ epochs'[1].upd = "fail")
          => (_ekf_running' = -1 /\ ~ekf_valid' /\ UNCHANGED exported) ]_vars

\* C11 (amended): a call whose update fails returns with confidence -1 and
\* ekf_valid() false, and the exported fields are what the point-solution
\* steps of that call left: the entry values if the point-solution is
\* invalid; the point solver's pos, llh, t_rx if it is valid; osc_corr
\* recomputed from the point-solutions only if the previous one is valid too.
C11_FailedUpdateFrame ==
    [][ (ProcessedNext /\ epochs'[1].upd = "fail")
          => /\ _ekf_running' = -1 /\ ~ekf_valid'
             /\ ~epochs'[1].valid => UNCHANGED exported
             /\ epochs'[1].valid =>
                   /\ _pos' = SppPos(_spp')
                   /\ _llh' = SppLLH(_spp')
                   /\ _t_rx' = SppTRx(_spp')
             /\ ~(epochs'[1].valid /\ epochs[1].valid) => _osc_corr' = _osc_corr
             /\ (epochs'[1].valid /\ epochs[1].valid) =>
                   _osc_corr' = SppOscCorr(_ct_rx', dadc_ticks_sec(_ticks_spp'))
      ]_vars

C11_Witness ==
    /\ Processed /\ epochs[1].upd = "fail" /\ ~epochs[1].boot
    /\ epochs[2].upd = "ok"
    /\ epochs[1].valid /\ _llh = SppLLH(_spp) /\ _ekf_running = -1

\* C12: a solve() call that returns returns false exactly when the batch has
\* no columns; a non-empty batch that meets the preconditions returns true
\* whatever _spp.Solve and _ekf.update report.
C12_ReturnValue ==
    call.op = "solve" =>
        /\ call.ret # "abort" => (call.ret = "false" <=> call.len = 0)
        /\ (call.len # 0 /\ call.pre = "none") => call.ret = "true"

C12_Witness ==
    /\ call.op = "solve" /\ call.ret = "true" /\ call.len # 0
    /\ ~call.status /\ epochs[1].upd = "fail"

C15_Original ==
    (call.op = "solve" /\ call.pre # "none") => call.ret = "abort"

\* C15 (amended): a solve() call whose column count differs from the weight
\* count, or whose non-empty batch does not have 4 rows, is aborted by an
\* assert: it does not return and writes nothing.  An empty batch with no
\* weights returns false before the row count is looked at, also when it
\* does not have 4 rows; it writes nothing either.
C15_FailFast ==
    [][ (call'.op = "solve" /\ call'.pre # "none")
          => /\ UNCHANGED <<object, epochs, ok_since_reset>>
             /\ IF call'.pre = "dim" /\ call'.len = 0
                THEN call'.ret = "false" /\ ~aborted'
                ELSE call'.ret = "abort" /\ aborted' ]_vars

C15_Witness ==
    /\ call.op = "solve" /\ call.pre = "count" /\ call.len = 0
    /\ call.ret = "abort" /\ aborted /\ pos_valid

\* C19: a solve() call with an empty batch and no weights returns false and
\* changes nothing: histories, confidence, pos_valid(), exported fields and
\* both solvers are as on entry (neither solver is invoked).
C19_EmptyBatchFrame ==
    [][ (call'.op = "solve" /\ call'.len = 0 /\ call'.pre # "count")
          => /\ call'.ret = "false"
             /\ UNCHANGED <<object, epochs, ok_since_reset, aborted>>
             /\ spp_valid' = spp_valid /\ ekf_valid' = ekf_valid ]_vars

C19_Witness ==
    /\ call.op = "solve" /\ call.ret = "false" /\ call.len = 0
    /\ spp_valid /\ ekf_valid /\ epochs[1].upd = "ok"

\* C20: spp_valid() implies pos_valid() and ekf_valid() implies pos_valid().
C20_ValidImpliesPosValid ==
    /\ spp_valid => pos_valid
    /\ ekf_valid => pos_valid

C20_Witness ==
    /\ Processed /\ ekf_valid /\ ~spp_valid /\ pos_valid

\* r is newest - previous, plus 2^48 when newest < previous, as integers
\* (r and previous are below 2^48, so Add64 does not wrap here)
Elapsed48(r, newest, previous) ==
    /\ r[1] = 0
    /\ Add64(r, previous) =
         <<IF Lt64(newest, previous) THEN 1 ELSE 0, newest[2], newest[3]>>

\* C14: for tick values (newest, previous) in [0, 2^48) dadc_ticks_sec yields
\* newest - previous when newest >= previous and newest + 2^48 - previous
\* otherwise, a value below 2^48 (nothing is lost to 64-bit overflow), and
\* strictly positive in the wrap case.  Checked on what solve() computed
\* from _ticks_spp (line 74) and, where the update failed and the pair is
\* still in place, from _ticks_ekf (line 93).
C14_ElapsedTicks ==
    /\ (Processed /\ call.osc # NoOsc /\ _ticks_spp[0][1] = 0 /\ _ticks_spp[1][1] = 0)
         => /\ Elapsed48(call.osc[4], _ticks_spp[0], _ticks_spp[1])
            /\ Lt64(_ticks_spp[0], _ticks_spp[1]) => call.osc[4] # TickZero
    /\ (Processed /\ epochs[1].upd = "fail" /\ _ticks_ekf[0][1] = 0 /\ _ticks_ekf[1][1] = 0)
         => /\ Elapsed48(call.dt, _ticks_ekf[0], _ticks_ekf[1])
            /\ Lt64(_ticks_ekf[0], _ticks_ekf[1]) => call.dt # TickZero

C14_Witness ==
    /\ Processed /\ call.osc # NoOsc
    /\ Lt64(_ticks_spp[0], _ticks_spp[1])
    /\ _ticks_spp[1] = <<0, L24 - 1, L24 - 1>>
    /\ call.osc[4] = <<0, 0, 2>>

\* C16 as stated: on every processed epoch each of the three histories
\* (_ticks_spp, _ticks_ekf, _ct_rx) ends with its previous slot holding what
\* its newest slot held on entry and its newest slot holding this call's
\* value.
C16_Original ==
    [][ ProcessedNext
          => /\ _ticks_spp' = Pair(call'.tick, _ticks_spp[0])
             /\ _ticks_ekf' = Pair(call'.tick, _ticks_ekf[0])
             /\ _ct_rx' = Pair(epochs'[1].ct, _ct_rx[0]) ]_vars

\* C16 (amended): on every processed epoch _ticks_spp and _ct_rx shift
\* (previous := newest on entry, newest := this call's value), whatever the
\* epoch's validity and the filter's mode.  _ticks_ekf does not shift: its
\* newest slot holds this call's tick, and its previous slot holds this
\* call's tick too if the filter was bootstrapped or updated successfully in
\* this call, and is left as it was otherwise.
C16_HistoriesShift ==
    [][ ProcessedNext
          => /\ _ticks_spp' = Pair(call'.tick, _ticks_spp[0])
             /\ _ct_rx' = Pair(epochs'[1].ct, _ct_rx[0])
             /\ _ticks_ekf' =
                  Pair(call'.tick,
                       IF epochs'[1].boot \/ epochs'[1].upd = "ok"
                       THEN call'.tick ELSE _ticks_ekf[1]) ]_vars

C16_Witness ==
    /\ Processed /\ epochs[2].real
    /\ ~epochs[1].valid /\ epochs[1].upd = "none"
    /\ _ticks_spp = Pair(epochs[1].tick, epochs[2].tick)
    /\ _ticks_ekf[0] = epochs[1].tick
    /\ _ticks_ekf[1] # epochs[2].tick /\ _ticks_ekf[1] # epochs[1].tick

\* C17: the tick difference handed to _ekf.update is zero when the filter was
\* bootstrapped in the same call; in every other invocation it is the
\* wrap-corrected difference between this call's tick and the tick of the
\* immediately preceding processed epoch.
C17_UpdateElapsed ==
    [][ (ProcessedNext /\ epochs'[1].upd # "none")
          => IF epochs'[1].boot
             THEN call'.dt = TickZero
             ELSE /\ epochs[1].real
                  /\ Elapsed48(call'.dt, call'.tick, epochs[1].tick) ]_vars

C17_Witness ==
    /\ Processed /\ epochs[1].upd = "ok" /\ ~epochs[1].boot
    /\ Lt64(epochs[1].tick, epochs[2].tick)
    /\ call.dt # TickZero /\ call.dt[1] = 0

\* C18: whenever the oscillator correction is computed from point-solutions
\* (this and the preceding processed epoch both valid), the clock biases and
\* the ticks differenced are those of this call and of the immediately
\* preceding processed epoch.
C18_SameEpochPair ==
    [][ (ProcessedNext /\ epochs'[1].valid /\ epochs[1].valid)
          => /\ call'.osc # NoOsc
             /\ call'.osc[2] = epochs'[1].ct
             /\ call'.osc[3] = epochs[1].ct
             /\ Elapsed48(call'.osc[4], epochs'[1].tick, epochs[1].tick) ]_vars

C18_Witness ==
    /\ Processed /\ call.osc # NoOsc
    /\ epochs[3].real /\ ~epochs[3].valid
    /\ epochs[1].tick # epochs[2].tick
    /\ _ticks_ekf[1] # epochs[2].tick
    /\ call.osc[4] # TickZero
====
